---- MODULE Spec2Model ----
(***************************************************************************)
(* The shop REST API of src/app.js: the Mongo collection of shop          *)
(* documents, the upload directory public/uploads, the wall clock, the    *)
(* reverse-geocoding oracle and the request handlers, each handler cut    *)
(* at its awaits so that requests interleave as on the Node event loop.   *)
(***************************************************************************)
EXTENDS Integers, Sequences, FiniteSets, TLC

(* ------------------------------ bounds -------------------------------- *)

\* Request slots: how many requests can be in flight at once.
MaxProcs == 2

\* Requests that arrive in one behaviour.
MaxRequests == 3

\* Documents constructed (ObjectIds handed out) in one behaviour.
MaxDocs == 2

\* The clock reads the instants s * 1000 + m, s in 0..MaxSec, m in 0..MaxMs.
MaxSec == 2

MaxMs == 0

(* ------------------------------ values -------------------------------- *)

\* 'Y-m-d H:M:S' has a resolution of one second, Date.now() of one millisecond.
MsPerSecond == 1000

\* JavaScript's undefined, for a form field or a JSON member that is absent.
Missing == "<undefined>"

Sentinel == "Unknown location"

Procs == 1 .. MaxProcs

Oids == 1 .. MaxDocs

\* The values uuidv4() can return.
Ids == {"uuid-1", "uuid-2"}

ClockValues == {s * MsPerSecond + m : s \in 0 .. MaxSec, m \in 0 .. MaxMs}

\* The names of the form fields the handlers read from req.body.
TextFields == {"ownerName", "contactNumber", "shopNumber", "address", "description"}

BodyFields == TextFields \cup {"latitude", "longitude"}

FullBody(v, lat, lon) ==
  [f \in BodyFields |-> IF f = "latitude" THEN lat ELSE IF f = "longitude" THEN lon ELSE v]

BodyA == FullBody("a", "51.5074", "-0.1278")

BodyB == FullBody("b", "0", "0")

\* The fields a request body is tried without.
Omitted == {"ownerName", "latitude"}

\* The request bodies tried: two complete ones, and BodyA with one field left out.
Bodies ==
  {BodyA, BodyB} \cup {[BodyA EXCEPT ![f] = Missing] : f \in Omitted}

\* The original names of the uploaded file; "" is a request without a file part.
NoFile == ""

OriginalNames == {"shop.jpg"}

\* path.extname on the names above.
extname(name) ==
  CASE name = "shop.jpg" -> ".jpg"
    [] name = "logo.png" -> ".png"
    [] OTHER -> ""

\* JavaScript truthiness of a string or undefined.
Truthy(v) == v # Missing /\ v # ""

(* ------------------------------ schema -------------------------------- *)

\* findOne's null, and the value of a local that holds no document.
NullDoc ==
  [oid |-> 0, id |-> "", ownerName |-> "", contactNumber |-> "", shopNumber |-> "",
   address |-> "", description |-> "", photo |-> "", timestamp |-> 0,
   location |-> [latitude |-> "", longitude |-> "", placeName |-> ""]]

\* The paths of shopSchema marked required: true.
RequiredPaths ==
  {"id", "ownerName", "contactNumber", "shopNumber", "address", "description"}

\* Mongoose's validation of a document against shopSchema: a required String
\* must be a non-empty string. timestamp is always set by the handlers.
Validates(doc) ==
  /\ \A f \in RequiredPaths : Truthy(doc[f])
  /\ Truthy(doc.location.latitude)
  /\ Truthy(doc.location.longitude)

(* ---------------------------- asset store ----------------------------- *)

\* storage.filename: Date.now() + path.extname(file.originalname).
filename(t, originalname) == ToString(t) \o extname(originalname)

\* storage.destination: where multer writes the file.
UploadPath(name) == "public/uploads/" \o name

\* The reference the handlers store for an upload: `/uploads/${req.file.filename}`.
PhotoRef(name) == "/uploads/" \o name

\* path.join(__dirname, 'public', shop.photo)
PhotoPath(photo) == "public" \o photo

\* dt.format('Y-m-d H:M:S'): the instant cut to whole seconds.
FormatTimestamp(t) == t \div MsPerSecond

(* ------------------------------ oracle -------------------------------- *)

\* The display name Nominatim has for a pair of coordinates.
OracleName(lat, lon) ==
  IF lat = "51.5074" /\ lon = "-0.1278" THEN "London, UK" ELSE "Null Island"

\* What the axios call can come back with: an exception (network error, error
\* status, res.data not an object), or a body whose display_name is the name
\* or is absent. Without coordinates Nominatim has no name to give.
OracleReplies(lat, lon) ==
  {[threw |-> TRUE, display_name |-> Missing],
   [threw |-> FALSE, display_name |-> Missing]}
  \cup (IF Truthy(lat) /\ Truthy(lon)
          THEN {[threw |-> FALSE, display_name |-> OracleName(lat, lon)]}
          ELSE {})

NoReply == [threw |-> FALSE, display_name |-> "<pending>"]

\* A mutation of getPlaceName: the body's display_name is returned as it is.
getPlaceNameNoFallback(reply) == reply.display_name

\* getPlaceName once the axios call has come back with `reply`.
getPlaceName(reply) ==
  IF reply.threw THEN Sentinel
  ELSE IF Truthy(reply.display_name) THEN reply.display_name
  ELSE Sentinel

(* ------------------------------- state -------------------------------- *)

VARIABLES
  db,         \* the shops collection: ObjectId -> document
  files,      \* the paths of the files that exist on disk
  now,        \* the wall clock at its last reading
  nextOid,    \* the next ObjectId
  started,    \* requests that have arrived
  pc,         \* per slot: where the request's handler is
  req,        \* per slot: the request (kind, params.id, body, file part)
  upload,     \* per slot: req.file.filename, NoFile without a file part
  shop,       \* per slot: the handler's local `shop`
  loaded,     \* per slot: `shop` as Mongoose loaded it (its dirty-check baseline)
  reply,      \* per slot: what the oracle answered this request
  pre,        \* per slot: db and files as they were when the request arrived
  resp,       \* the last response sent, with the request it answers
  created,    \* per id: the record the last create returned, while untouched
  issued,     \* the ids successful creates have returned so far
  gone        \* per id: "deleted" once a delete of it was confirmed,
              \* "reissued" once a later create returned it again

vars ==
  <<db, files, now, nextOid, started, pc, req, upload, shop, loaded, reply, pre,
    resp, created, issued, gone>>

NoReq == [kind |-> "none", id |-> "", body |-> BodyA, originalname |-> NoFile]

NoPre == [db |-> <<>>, files |-> {}]

NoResp ==
  [kind |-> "none", id |-> "", status |-> 0, shop |-> NullDoc, shops |-> {},
   message |-> ""]

Docs == {db[k] : k \in DOMAIN db}

Init ==
  /\ db = <<>>
  /\ files = {}
  /\ now = 0
  /\ nextOid = 1
  /\ started = 0
  /\ pc = [p \in Procs |-> "idle"]
  /\ req = [p \in Procs |-> NoReq]
  /\ upload = [p \in Procs |-> NoFile]
  /\ shop = [p \in Procs |-> NullDoc]
  /\ loaded = [p \in Procs |-> NullDoc]
  /\ reply = [p \in Procs |-> NoReply]
  /\ pre = [p \in Procs |-> NoPre]
  /\ resp = NoResp
  /\ created = [i \in Ids |-> NullDoc]
  /\ issued = {}
  /\ gone = [i \in Ids |-> "no"]

(* ----------------------------- helpers -------------------------------- *)

\* A mutation of findOne: the filter on id is dropped.
findOneUnfiltered(i) ==
  IF Docs # {} THEN CHOOSE d \in Docs : TRUE ELSE NullDoc

\* Shop.findOne({ id: i }): the document with that id, or null.
findOne(i) ==
  IF \E d \in Docs : d.id = i THEN CHOOSE d \in Docs : d.id = i ELSE NullDoc

\* What the clock can read next: it does not run backwards.
ClockReads == {t \in ClockValues : t >= now}

\* A request arrives at the free slot p.
Arrives(p) ==
  /\ pc[p] = "idle"
  /\ started < MaxRequests
  /\ started' = started + 1

\* The arrived request waits on an await: the slot keeps it and its locals.
Holds(p, kind, i, body, originalname) ==
  /\ req' = [req EXCEPT ![p] =
       [kind |-> kind, id |-> i, body |-> body, originalname |-> originalname]]
  /\ pre' = [pre EXCEPT ![p] = [db |-> db, files |-> files]]

\* res.status(status).json(...) for a request of the given kind and id.
Sends(kind, i, status, doc, shops, message) ==
  resp' = [kind |-> kind, id |-> i, status |-> status, shop |-> doc,
           shops |-> shops, message |-> message]

\* The handler in slot p sends its response and is over: the slot is free.
Responds(p, status, doc, message) ==
  /\ Sends(req[p].kind, req[p].id, status, doc, {}, message)
  /\ pc' = [pc EXCEPT ![p] = "idle"]
  /\ req' = [req EXCEPT ![p] = NoReq]
  /\ upload' = [upload EXCEPT ![p] = NoFile]
  /\ shop' = [shop EXCEPT ![p] = NullDoc]
  /\ loaded' = [loaded EXCEPT ![p] = NullDoc]
  /\ reply' = [reply EXCEPT ![p] = NoReply]
  /\ pre' = [pre EXCEPT ![p] = NoPre]

\* The slot's request goes on to its next await.
Continues(p, next) ==
  /\ pc' = [pc EXCEPT ![p] = next]
  /\ UNCHANGED <<req, upload, pre, resp>>

\* upload.single('photo'): multer writes the file part, if there is one, to
\* public/uploads under storage.filename, replacing a file of that name.
Multer(p, originalname) ==
  IF originalname = NoFile
    THEN UNCHANGED <<upload, files, now>>
    ELSE \E t \in ClockReads :
           /\ now' = t
           /\ upload' = [upload EXCEPT ![p] = filename(t, originalname)]
           /\ files' = files \cup {UploadPath(filename(t, originalname))}

\* The record `created` keeps for an id is dropped once an update or a delete
\* on that id takes a step.
Touches(i) ==
  /\ created' = [created EXCEPT ![i] = NullDoc]
  /\ issued' = issued
  /\ gone' = gone

(* ------------------------ GET /api/shops (list) ----------------------- *)

ListShops(p) ==
  /\ Arrives(p)
  /\ \E ok \in BOOLEAN :
       IF ok THEN Sends("list", "", 200, NullDoc, Docs, "")
       ELSE Sends("list", "", 500, NullDoc, {}, "Failed to fetch shops")
  /\ UNCHANGED <<db, files, now, nextOid, pc, req, upload, shop, loaded, reply, pre,
                 created, issued, gone>>

(* ------------------------- GET /api/shops/:id ------------------------- *)

GetShop(p) ==
  /\ Arrives(p)
  /\ \E i \in Ids, ok \in BOOLEAN :
       IF ~ok THEN Sends("get", i, 500, NullDoc, {}, "Failed to fetch shop")
       ELSE IF findOne(i) = NullDoc
         THEN Sends("get", i, 404, NullDoc, {}, "Shop not found")
       ELSE Sends("get", i, 200, findOne(i), {}, "")
  /\ UNCHANGED <<db, files, now, nextOid, pc, req, upload, shop, loaded, reply, pre,
                 created, issued, gone>>

(* --------------------------- POST /api/shops -------------------------- *)

\* new Shop({...}) of the create handler: the document built from the request.
NewShop(oid, uuid, body, name, placeName, t) ==
  [oid |-> oid, id |-> uuid,
   ownerName |-> body.ownerName, contactNumber |-> body.contactNumber,
   shopNumber |-> body.shopNumber, address |-> body.address,
   description |-> body.description,
   photo |-> IF name # NoFile THEN PhotoRef(name) ELSE "",
   timestamp |-> FormatTimestamp(t),
   location |-> [latitude |-> body.latitude, longitude |-> body.longitude,
                 placeName |-> placeName]]

\* A mutation of InsertAccepted: the unique index on id is not consulted.
InsertAcceptedNoIndex(doc) == Validates(doc)

\* shop.save() of a new document: it is validated, then inserted unless the
\* unique index on id rejects it.
InsertAccepted(doc) ==
  /\ Validates(doc)
  /\ \A d \in Docs : d.id # doc.id

\* Creates that have arrived and not yet built their document.
Unbuilt == {q \in Procs : req[q].kind = "create" /\ pc[q] \in {"geocode", "hung"}}

\* The request arrives and multer stores its file part; the handler then calls
\* getPlaceName and awaits it.
PostUpload(p) ==
  /\ Arrives(p)
  /\ Cardinality(Unbuilt) + nextOid <= MaxDocs
  /\ \E body \in Bodies, originalname \in OriginalNames \cup {NoFile} :
       /\ Holds(p, "create", "", body, originalname)
       /\ Multer(p, originalname)
  /\ pc' = [pc EXCEPT ![p] = "geocode"]
  /\ UNCHANGED <<db, nextOid, shop, loaded, reply, resp, created, issued, gone>>

\* getPlaceName returns; the document is built and shop.save() is called.
PostGeoReturn(p) ==
  /\ pc[p] = "geocode"
  /\ req[p].kind = "create"
  /\ \E r \in OracleReplies(req[p].body.latitude, req[p].body.longitude),
        uuid \in Ids, t \in ClockReads :
       /\ reply' = [reply EXCEPT ![p] = r]
       /\ now' = t
       /\ shop' = [shop EXCEPT ![p] =
            NewShop(nextOid, uuid, req[p].body, upload[p], getPlaceName(r), t)]
  /\ nextOid' = nextOid + 1
  /\ Continues(p, "save")
  /\ UNCHANGED <<db, files, started, loaded, created, issued, gone>>

\* shop.save() settles: the document is stored and returned, or the save threw.
PostSave(p) ==
  /\ pc[p] = "save"
  /\ req[p].kind = "create"
  /\ \E ok \in BOOLEAN :
       IF ok /\ InsertAccepted(shop[p])
         THEN /\ db' = db @@ (shop[p].oid :> shop[p])
              /\ created' = [created EXCEPT ![shop[p].id] = shop[p]]
              /\ issued' = issued \cup {shop[p].id}
              /\ gone' = [gone EXCEPT ![shop[p].id] =
                   IF @ = "no" THEN "no" ELSE "reissued"]
              /\ Responds(p, 201, shop[p], "")
         ELSE /\ UNCHANGED <<db, created, issued, gone>>
              /\ Responds(p, 500, NullDoc, "Failed to create shop")
  /\ UNCHANGED <<files, now, nextOid, started>>

(* -------------------------- PUT /api/shops/:id ------------------------ *)

\* The request arrives and multer stores its file part; the handler then calls
\* Shop.findOne and awaits it.
PutUpload(p) ==
  /\ Arrives(p)
  /\ \E i \in Ids, body \in Bodies, originalname \in OriginalNames \cup {NoFile} :
       /\ Holds(p, "update", i, body, originalname)
       /\ Multer(p, originalname)
       /\ Touches(i)
  /\ pc' = [pc EXCEPT ![p] = "findOne"]
  /\ UNCHANGED <<db, nextOid, shop, loaded, reply, resp>>

\* findOne settles: 404 without a document, 500 when it threw; otherwise the
\* handler calls getPlaceName and awaits it.
PutFind(p) ==
  /\ pc[p] = "findOne"
  /\ req[p].kind = "update"
  /\ Touches(req[p].id)
  /\ \E ok \in BOOLEAN :
       IF ~ok THEN Responds(p, 500, NullDoc, "Failed to update shop")
       ELSE IF findOne(req[p].id) = NullDoc
         THEN Responds(p, 404, NullDoc, "Shop not found")
       ELSE /\ shop' = [shop EXCEPT ![p] = findOne(req[p].id)]
            /\ loaded' = [loaded EXCEPT ![p] = findOne(req[p].id)]
            /\ reply' = reply
            /\ Continues(p, "geocode")
  /\ UNCHANGED <<db, files, now, nextOid, started>>

\* A mutation of AssignFields: with unchanged coordinates the place name the
\* document holds is kept.
AssignFieldsKeepPlace(doc, body, placeName, t) ==
  [doc EXCEPT
     !.ownerName = body.ownerName, !.contactNumber = body.contactNumber,
     !.shopNumber = body.shopNumber, !.address = body.address,
     !.description = body.description,
     !.location = [latitude |-> body.latitude, longitude |-> body.longitude,
                   placeName |->
                     IF body.latitude = doc.location.latitude
                          /\ body.longitude = doc.location.longitude
                       THEN doc.location.placeName ELSE placeName],
     !.timestamp = FormatTimestamp(t)]

\* Lines 129-135: every field of the request replaces the document's, and the
\* timestamp is refreshed.
AssignFields(doc, body, placeName, t) ==
  [doc EXCEPT
     !.ownerName = body.ownerName, !.contactNumber = body.contactNumber,
     !.shopNumber = body.shopNumber, !.address = body.address,
     !.description = body.description,
     !.location = [latitude |-> body.latitude, longitude |-> body.longitude,
                   placeName |-> placeName],
     !.timestamp = FormatTimestamp(t)]

\* A mutation of HasPhotoFile: fs.existsSync is not consulted.
HasPhotoUnchecked(doc) == Truthy(doc.photo)

\* Line 138: the document has a photo and its file is on disk.
HasPhotoFile(doc) == Truthy(doc.photo) /\ PhotoPath(doc.photo) \in files

\* A mutation of ReplacePhoto: the reference is set without looking at req.file.
ReplacePhotoAlways(doc, name) == [doc EXCEPT !.photo = PhotoRef(name)]

\* Lines 137-142: with a file part, the old photo's file is unlinked if it is
\* on disk, and the document refers to the new upload.
ReplacePhoto(doc, name) ==
  IF name = NoFile THEN doc ELSE [doc EXCEPT !.photo = PhotoRef(name)]

\* The files left once the photo of doc is unlinked, if it is on disk.
Unlinked(doc) ==
  IF HasPhotoFile(doc) THEN files \ {PhotoPath(doc.photo)} ELSE files

\* getPlaceName returns; the fields are assigned; with a file part the old
\* photo's file is unlinked and the new reference set; shop.save() is called.
\* unlinkSync can throw, which ends the request with 500.
PutGeoReturn(p) ==
  /\ pc[p] = "geocode"
  /\ req[p].kind = "update"
  /\ Touches(req[p].id)
  /\ \E r \in OracleReplies(req[p].body.latitude, req[p].body.longitude),
        t \in ClockReads, unlinks \in BOOLEAN :
       /\ now' = t
       /\ IF upload[p] # NoFile /\ HasPhotoFile(shop[p]) /\ ~unlinks
            THEN /\ files' = files
                 /\ Responds(p, 500, NullDoc, "Failed to update shop")
            ELSE /\ unlinks
                 /\ files' = IF upload[p] # NoFile THEN Unlinked(shop[p]) ELSE files
                 /\ shop' = [shop EXCEPT ![p] =
                      ReplacePhoto(
                        AssignFields(@, req[p].body, getPlaceName(r), t), upload[p])]
                 /\ reply' = [reply EXCEPT ![p] = r]
                 /\ loaded' = loaded
                 /\ Continues(p, "save")
  /\ UNCHANGED <<db, nextOid, started>>

\* The paths Mongoose writes on save are those whose value differs from the
\* value loaded: the stored document keeps every other path as it is now.
Merge(stored, base, local) ==
  [f \in DOMAIN stored |-> IF local[f] # base[f] THEN local[f] ELSE stored[f]]

\* shop.save() settles: the modified paths are written and the document is
\* returned, or the save threw (validation, no such document any more, store).
PutSave(p) ==
  /\ pc[p] = "save"
  /\ req[p].kind = "update"
  /\ Touches(req[p].id)
  /\ \E ok \in BOOLEAN :
       IF ok /\ Validates(shop[p]) /\ shop[p].oid \in DOMAIN db
         THEN /\ db' = [db EXCEPT ![shop[p].oid] = Merge(@, loaded[p], shop[p])]
              /\ Responds(p, 200, shop[p], "")
         ELSE /\ db' = db
              /\ Responds(p, 500, NullDoc, "Failed to update shop")
  /\ UNCHANGED <<files, now, nextOid, started>>

(* ------------------------ DELETE /api/shops/:id ----------------------- *)

\* The request arrives and findOne settles: 404 without a document, 500 when
\* it threw.
DeleteFind(p) ==
  /\ Arrives(p)
  /\ \E i \in Ids, ok \in BOOLEAN :
       /\ Touches(i)
       /\ IF ~ok
            THEN /\ Sends("delete", i, 500, NullDoc, {}, "Failed to delete shop")
                 /\ UNCHANGED <<pc, req, pre, shop, loaded>>
          ELSE IF findOne(i) = NullDoc
            THEN /\ Sends("delete", i, 404, NullDoc, {}, "Shop not found")
                 /\ UNCHANGED <<pc, req, pre, shop, loaded>>
          ELSE /\ Holds(p, "delete", i, BodyA, NoFile)
               /\ shop' = [shop EXCEPT ![p] = findOne(i)]
               /\ loaded' = [loaded EXCEPT ![p] = findOne(i)]
               /\ pc' = [pc EXCEPT ![p] = "unlink"]
               /\ resp' = resp
  /\ UNCHANGED <<db, files, now, nextOid, upload, reply>>

\* Lines 157-161: the photo's file is unlinked if it is on disk, and
\* Shop.deleteOne is called. unlinkSync can throw, which ends the request with 500.
DeleteUnlink(p) ==
  /\ pc[p] = "unlink"
  /\ Touches(req[p].id)
  /\ \E unlinks \in BOOLEAN :
       IF HasPhotoFile(shop[p]) /\ ~unlinks
         THEN /\ files' = files
              /\ Responds(p, 500, NullDoc, "Failed to delete shop")
         ELSE /\ unlinks
              /\ files' = Unlinked(shop[p])
              /\ Continues(p, "deleteOne")
              /\ UNCHANGED <<shop, loaded, reply>>
  /\ UNCHANGED <<db, now, nextOid, started>>

\* A mutation of deleteOne: the call settles and nothing is removed.
deleteOneNothing(i) == db

\* The collection after Shop.deleteOne({ id: i }).
deleteOne(i) == [k \in {j \in DOMAIN db : db[j] # findOne(i)} |-> db[k]]

\* Shop.deleteOne({ id }) settles: the document with that id, if any, is gone.
DeleteOne(p) ==
  /\ pc[p] = "deleteOne"
  /\ created' = [created EXCEPT ![req[p].id] = NullDoc]
  /\ issued' = issued
  /\ \E ok \in BOOLEAN :
       IF ok
         THEN /\ db' = deleteOne(req[p].id)
              /\ gone' = [gone EXCEPT ![req[p].id] = "deleted"]
              /\ Responds(p, 200, NullDoc, "Shop deleted")
         ELSE /\ UNCHANGED <<db, gone>>
              /\ Responds(p, 500, NullDoc, "Failed to delete shop")
  /\ UNCHANGED <<files, now, nextOid, started>>

(* ------------------------------ oracle -------------------------------- *)

\* The oracle never answers: the axios call is made without a timeout, so the
\* await of getPlaceName never settles.
OracleHangs(p) ==
  /\ pc[p] = "geocode"
  /\ pc' = [pc EXCEPT ![p] = "hung"]
  /\ UNCHANGED <<db, files, now, nextOid, started, req, upload, shop, loaded, reply,
                 pre, resp, created, issued, gone>>

(* --------------------------- specifications --------------------------- *)

\* No request is in flight.
Quiescent == \A q \in Procs : pc[q] = "idle"

Arrival(p) ==
  \/ ListShops(p)
  \/ GetShop(p)
  \/ PostUpload(p)
  \/ PutUpload(p)
  \/ DeleteFind(p)

Step(p) ==
  \/ PostGeoReturn(p)
  \/ PostSave(p)
  \/ PutFind(p)
  \/ PutGeoReturn(p)
  \/ PutSave(p)
  \/ DeleteUnlink(p)
  \/ DeleteOne(p)
  \/ OracleHangs(p)

\* Requests arrive at any time and their handlers interleave at the awaits.
Next == \E p \in Procs : Arrival(p) \/ Step(p)

Spec == Init /\ [][Next]_vars

\* Requests are handled one at a time: one arrives only when none is in flight.
SeqNext ==
  \E p \in Procs :
    \/ Quiescent /\ ListShops(p)
    \/ Quiescent /\ GetShop(p)
    \/ Quiescent /\ PostUpload(p)
    \/ Quiescent /\ PutUpload(p)
    \/ Quiescent /\ DeleteFind(p)
    \/ Step(p)

SeqSpec == Init /\ [][SeqNext]_vars

\* The record a create of BodyA with a photo stores at clock 0, under the first
\* ObjectId and id.
Stocked ==
  NewShop(1, "uuid-1", BodyA, filename(0, "shop.jpg"),
          OracleName(BodyA.latitude, BodyA.longitude), 0)

\* The state that create leaves: its record stored, its photo on disk, its
\* 201 sent.
StockedInit ==
  /\ db = (1 :> Stocked)
  /\ files = {UploadPath(filename(0, "shop.jpg"))}
  /\ now = 0
  /\ nextOid = 2
  /\ started = 1
  /\ pc = [p \in Procs |-> "idle"]
  /\ req = [p \in Procs |-> NoReq]
  /\ upload = [p \in Procs |-> NoFile]
  /\ shop = [p \in Procs |-> NullDoc]
  /\ loaded = [p \in Procs |-> NullDoc]
  /\ reply = [p \in Procs |-> NoReply]
  /\ pre = [p \in Procs |-> NoPre]
  /\ resp = [kind |-> "create", id |-> "", status |-> 201, shop |-> Stocked,
             shops |-> {}, message |-> ""]
  /\ created = [i \in Ids |-> IF i = "uuid-1" THEN Stocked ELSE NullDoc]
  /\ issued = {"uuid-1"}
  /\ gone = [i \in Ids |-> "no"]

\* Updates and deletes arrive at any time and their handlers interleave at the
\* awaits.
RaceNext ==
  \E p \in Procs :
    \/ PutUpload(p)
    \/ DeleteFind(p)
    \/ PutFind(p)
    \/ PutGeoReturn(p)
    \/ PutSave(p)
    \/ DeleteUnlink(p)
    \/ DeleteOne(p)
    \/ OracleHangs(p)

\* The updates and deletes that follow one create, overlapping freely.
RaceSpec == StockedInit /\ [][RaceNext]_vars

(* ------------------------------- claims ------------------------------- *)

\* The request in slot p sends its response in this step.
Answers(p) == pc[p] # "idle" /\ pc'[p] = "idle"

\* A request arrives and is answered in one step (list, get, a delete that
\* finds nothing).
AnswersAtOnce == started' = started + 1 /\ pc' = pc

\* Every stored record with a photo reference refers to a file on disk.
NoDanglingPhoto == \A d \in Docs : Truthy(d.photo) => PhotoPath(d.photo) \in files

\* C1: with requests handled one at a time, after each of them (those that fail
\* with 500 included) every stored record with a non-empty photo reference
\* refers to a file that exists: no update or delete leaves a record pointing
\* at a deleted file.
C1_PhotoAlwaysExists == Quiescent => NoDanglingPhoto

\* The file of the photo the update in slot p found on the record is removed
\* in this step.
RemovesOldFile(p) ==
  /\ req[p].kind = "update"
  /\ upload[p] # NoFile
  /\ Truthy(loaded[p].photo)
  /\ PhotoPath(loaded[p].photo) \in files
  /\ PhotoPath(loaded[p].photo) \notin files'

\* The stored record of the update in slot p refers to its new upload.
NewReferencePersisted(p) ==
  /\ loaded[p].oid \in DOMAIN db
  /\ db[loaded[p].oid].photo = PhotoRef(upload[p])

\* C2: in an update with a new upload for a shop that has a photo, the old
\* file is removed only once the record with the new reference is persisted.
C2_PersistBeforeRemove ==
  [][\A p \in Procs : RemovesOldFile(p) => NewReferencePersisted(p)]_vars

\* The update in slot p, which replaces a photo, succeeds in this step.
ReplacingUpdateSucceeds(p) ==
  /\ pc[p] = "save"
  /\ req[p].kind = "update"
  /\ upload[p] # NoFile
  /\ Truthy(loaded[p].photo)
  /\ Answers(p)
  /\ resp'.status = 200

\* The delete in slot p succeeds in this step.
DeleteSucceeds(p) ==
  /\ pc[p] = "deleteOne"
  /\ Answers(p)
  /\ resp'.status = 200

\* C3: after a successful update that replaces a photo the old file is absent
\* and the file of the record's new reference is present; after a successful
\* delete the file the deleted record referred to is absent.
C3_AssetsFollowRecord ==
  [][\A p \in Procs :
       /\ ReplacingUpdateSucceeds(p) =>
            /\ PhotoPath(loaded[p].photo) \notin files'
            /\ PhotoPath(db'[loaded[p].oid].photo) \in files'
       /\ DeleteSucceeds(p) /\ Truthy(loaded[p].photo) =>
            PhotoPath(loaded[p].photo) \notin files']_vars

\* C4: a get, update or delete on an id that matches no record answers 404 and
\* changes nothing: no record is created or modified and no file is added or
\* removed, also when the update carries an upload.
C4_NotFoundChangesNothing ==
  [][/\ \A p \in Procs :
          Answers(p) /\ resp'.status = 404 =>
            db' = pre[p].db /\ files' = pre[p].files
     /\ AnswersAtOnce /\ resp'.status = 404 => UNCHANGED <<db, files>>]_vars

\* The create in slot p succeeds in this step.
CreateSucceeds(p) ==
  /\ pc[p] = "save"
  /\ req[p].kind = "create"
  /\ Answers(p)
  /\ resp'.status = 201

\* The update in slot p succeeds in this step.
UpdateSucceeds(p) ==
  /\ pc[p] = "save"
  /\ req[p].kind = "update"
  /\ Answers(p)
  /\ resp'.status = 200

\* No step changes the id of a stored record, and a successful update returns
\* the record under the id it was asked for.
IdNeverChanges ==
  /\ \A k \in DOMAIN db \cap DOMAIN db' : db'[k].id = db[k].id
  /\ \A p \in Procs : UpdateSucceeds(p) => resp'.shop.id = req[p].id

OracleFailed(r) == r # NoReply /\ (r.threw \/ ~Truthy(r.display_name))

\* The place name to store for an oracle reply: its display name if it has
\* one, the sentinel otherwise.
Resolved(r) ==
  IF ~r.threw /\ Truthy(r.display_name) THEN r.display_name ELSE Sentinel

\* C6: when the oracle fails or answers without a usable display name, the
\* handler goes on with the place name "Unknown location" (no error reaches
\* it), and the create or update that then succeeds stores and returns exactly
\* that place name.
C6_FallbackToSentinel ==
  [][\A p \in Procs :
       /\ pc[p] = "geocode" /\ pc'[p] = "save" /\ OracleFailed(reply'[p]) =>
            shop'[p].location.placeName = Sentinel
       /\ (CreateSucceeds(p) \/ UpdateSucceeds(p)) /\ OracleFailed(reply[p]) =>
            /\ db'[shop[p].oid].location.placeName = Sentinel
            /\ resp'.shop.location.placeName = Sentinel]_vars

\* An update whose coordinates are present has succeeded with the sentinel as
\* place name, which only an oracle failure produces.
C6_Witness ==
  /\ resp.kind = "update"
  /\ resp.status = 200
  /\ Truthy(resp.shop.location.latitude)
  /\ resp.shop.location.placeName = Sentinel
  /\ resp.shop \in Docs

\* C7: the geocoding call is bounded by a timeout, so a request that waits for
\* an oracle that never answers still goes on to its response: every request
\* in flight has a step to take.
C7_EveryRequestProceeds == \A p \in Procs : pc[p] # "idle" => ENABLED Step(p)

\* A required field is missing from the body.
LacksRequiredField(body) == \E f \in BodyFields : ~Truthy(body[f])

\* C8: a create or update whose body lacks a required field is answered 4xx and
\* not attempted: no geocoding call is made, no record is written and no file
\* is kept.
C8_MissingFieldRejected ==
  [][\A p \in Procs :
       req[p].kind \in {"create", "update"} /\ LacksRequiredField(req[p].body) =>
         /\ pc[p] \notin {"geocode", "hung", "save"}
         /\ Answers(p) =>
              /\ resp'.status \in 400 .. 499
              /\ db' = pre[p].db
              /\ files' = pre[p].files]_vars

\* C9: after a successful create or update the stored place name is the one
\* resolved from the coordinates of that request: the oracle's answer for them
\* or the sentinel, never the name the record held before.
C9_PlaceNameRecomputed ==
  [][\A p \in Procs :
       CreateSucceeds(p) \/ UpdateSucceeds(p) =>
         /\ reply[p] \in OracleReplies(req[p].body.latitude, req[p].body.longitude)
         /\ db'[shop[p].oid].location.placeName = Resolved(reply[p])
         /\ db'[shop[p].oid].location.latitude = req[p].body.latitude
         /\ db'[shop[p].oid].location.longitude = req[p].body.longitude]_vars

\* An update with the coordinates the record already has is about to store a
\* place name other than the one the record holds.
C9_Witness ==
  \E p \in Procs :
    /\ pc[p] = "save"
    /\ req[p].kind = "update"
    /\ shop[p].location.latitude = loaded[p].location.latitude
    /\ shop[p].location.longitude = loaded[p].location.longitude
    /\ shop[p].location.placeName # loaded[p].location.placeName
    /\ Validates(shop[p])

\* C10: a get on the id a create returned, with no update or delete on that id
\* in between, returns the record the create returned.
C10_GetReturnsCreated ==
  [][AnswersAtOnce /\ resp'.kind = "get" /\ resp'.status # 500
       /\ created[resp'.id] # NullDoc =>
         /\ resp'.status = 200
         /\ resp'.shop = created[resp'.id]]_vars

\* A get has returned the record, photo included, that the create of its id
\* returned, while another record is stored too.
C10_Witness ==
  /\ resp.kind = "get"
  /\ resp.status = 200
  /\ resp.shop = created[resp.id]
  /\ Truthy(resp.shop.photo)
  /\ Cardinality(DOMAIN db) = 2

\* The stored timestamp of no record goes back in this step.
TimestampNeverGoesBack ==
  \A k \in DOMAIN db \cap DOMAIN db' : db'[k].timestamp >= db[k].timestamp

\* A successful create or update stores the timestamp the request stamped.
TimestampRefreshed ==
  \A p \in Procs :
    CreateSucceeds(p) \/ UpdateSucceeds(p) =>
      db'[shop[p].oid].timestamp = shop[p].timestamp

\* C11: every successful create and update refreshes the stored timestamp of
\* its record, and over the successful mutations of one record the stored
\* timestamp never goes back, also when two updates of the record overlap.
C11_TimestampMonotone == [][TimestampRefreshed /\ TimestampNeverGoesBack]_vars

\* multer stages the file part of the request in slot p in this step.
StagesUpload(p) == upload[p] = NoFile /\ upload'[p] # NoFile

\* No two stored records reference the same file.
DistinctPhotos ==
  \A d1, d2 \in Docs :
    d1.oid # d2.oid /\ Truthy(d1.photo) => d1.photo # d2.photo

\* C12: an upload is staged under a filename that differs from the filename
\* of every other staged upload and from the file every stored record
\* references, so a new upload overwrites no referenced file and no two
\* records ever reference the same file, also when two uploads with the same
\* extension arrive at the same clock value.
C12_DistinctFilenames ==
  [][/\ \A p \in Procs :
          StagesUpload(p) =>
            /\ \A q \in Procs \ {p} : upload[q] # upload'[p]
            /\ \A d \in Docs : d.photo # PhotoRef(upload'[p])
     /\ DistinctPhotos']_vars

\* Every file in the asset store is the photo of some stored record.
NoOrphanFile ==
  \A f \in files : \E d \in Docs : Truthy(d.photo) /\ PhotoPath(d.photo) = f

\* The request in slot p is the second of two successful requests on one id to
\* complete in this step, the first having been an update and one of the two a
\* photo upload; no request remains in flight.
SecondOfTwoCompletes(p) ==
  /\ Answers(p)
  /\ Quiescent'
  /\ req[p].kind \in {"update", "delete"}
  /\ resp'.status = 200
  /\ resp.kind = "update"
  /\ resp.status = 200
  /\ resp.id = req[p].id
  /\ upload[p] # NoFile \/ resp.shop.photo # pre[p].db[resp.shop.oid].photo

\* C13: however an update with a new photo interleaves with a second such
\* update or with a delete of the same id, once both have completed every
\* stored photo reference has its file and every file is referenced.
C13_RaceLeavesAssetsConsistent ==
  [][\A p \in Procs :
       SecondOfTwoCompletes(p) => NoDanglingPhoto' /\ NoOrphanFile']_vars

\* The create in slot p fails at its persistence step in this step.
CreateFails(p) ==
  /\ pc[p] = "save"
  /\ req[p].kind = "create"
  /\ Answers(p)
  /\ resp'.status = 500

\* C14: a create whose save fails answers 500 "Failed to create shop", adds no
\* record, and leaves the file it had staged in the asset store, where no
\* record references it.
C14_FailedCreateKeepsUpload ==
  [][\A p \in Procs :
       CreateFails(p) =>
         /\ resp'.message = "Failed to create shop"
         /\ db' = pre[p].db
         /\ upload[p] # NoFile =>
              /\ UploadPath(upload[p]) \in files'
              /\ \A d \in Docs' : d.photo # PhotoRef(upload[p])]_vars

\* C15: an update without a file part performs no file operation and, when it
\* succeeds, leaves the stored and the returned photo reference as loaded; an
\* update that attaches a photo to a record without one stores a non-empty
\* reference and deletes no file.
C15_PhotoFrame ==
  [][\A p \in Procs :
       /\ Answers(p) /\ req[p].kind = "update" /\ req[p].originalname = NoFile =>
            files' = pre[p].files
       /\ UpdateSucceeds(p) /\ upload[p] = NoFile =>
            /\ db'[loaded[p].oid].photo = loaded[p].photo
            /\ resp'.shop.photo = loaded[p].photo
       /\ UpdateSucceeds(p) /\ upload[p] # NoFile /\ loaded[p].photo = "" =>
            /\ Truthy(db'[loaded[p].oid].photo)
            /\ pre[p].files \subseteq files']_vars

\* An update is about to save a record that had no photo with its first one,
\* after an update without a file part has succeeded.
C15_Witness ==
  /\ resp.kind = "update"
  /\ resp.status = 200
  /\ resp.shop.photo = ""
  /\ \E p \in Procs :
       /\ pc[p] = "save"
       /\ req[p].kind = "update"
       /\ upload[p] # NoFile
       /\ loaded[p].photo = ""
       /\ Truthy(shop[p].photo)

\* The delete in slot p holds a record whose photo file is not on disk.
DeletesWithFileAbsent(p) ==
  /\ req[p].kind = "delete"
  /\ Truthy(shop[p].photo)
  /\ PhotoPath(shop[p].photo) \notin files

\* C16: a delete of a record whose photo file is absent raises no error at
\* the file step: it goes on to Shop.deleteOne with the asset store as it was,
\* and when deleteOne settles the record is removed and "Shop deleted" is
\* answered, as for a record whose file is present.
C16_AbsentFileNoError ==
  [][\A p \in Procs :
       /\ pc[p] = "unlink" /\ DeletesWithFileAbsent(p) /\ pc'[p] # "unlink" =>
            /\ pc'[p] = "deleteOne"
            /\ files' = files
            /\ resp' = resp
       /\ DeleteSucceeds(p) =>
            /\ resp'.message = "Shop deleted"
            /\ \A d \in Docs' : d.id # req[p].id]_vars

\* A delete has passed its file step for a record whose file was absent when
\* the request arrived.
C16_Witness ==
  \E p \in Procs :
    /\ pc[p] = "deleteOne"
    /\ DeletesWithFileAbsent(p)
    /\ PhotoPath(shop[p].photo) \notin pre[p].files

\* The create in slot p settles its save in this step, with an id that a
\* stored record carries.
CreateWithTakenId(p) ==
  /\ pc[p] = "save"
  /\ req[p].kind = "create"
  /\ Answers(p)
  /\ \E d \in Docs : d.id = shop[p].id

\* C17: no two stored records carry the same id: a create whose generated id
\* is the id of a stored record answers 500 "Failed to create shop" and leaves
\* the store, that record included, as it was.
C17_DuplicateIdRejected ==
  [][/\ \A d1, d2 \in Docs' : d1.id = d2.id => d1 = d2
     /\ \A p \in Procs :
          CreateWithTakenId(p) =>
            /\ resp'.status = 500
            /\ resp'.message = "Failed to create shop"
            /\ db' = db]_vars

\* A valid new document waits on its save with the id of a stored record.
C17_Witness ==
  \E p \in Procs :
    /\ pc[p] = "save"
    /\ req[p].kind = "create"
    /\ Validates(shop[p])
    /\ \E d \in Docs : d.id = shop[p].id

\* The update in slot p fails at its persistence step in this step.
UpdateFailsAtSave(p) ==
  /\ pc[p] = "save"
  /\ req[p].kind = "update"
  /\ Answers(p)
  /\ resp'.status = 500

\* C18: when the save of an update fails and 500 is answered, the stored
\* record is in every field as it was when the request arrived, and the asset
\* store holds the files it held then.
C18_FailedUpdateChangesNothing ==
  [][\A p \in Procs :
       UpdateFailsAtSave(p) =>
         /\ db' = pre[p].db
         /\ files' = pre[p].files]_vars

\* The ids whose delete was confirmed at some time.
EverDeleted == {i \in Ids : gone[i] # "no"}

\* The ids whose delete was confirmed and that no create has returned since.
DeletedSince == {i \in Ids : gone[i] = "deleted"}

\* In this step the ids of G, and after it those of H, are those of no stored
\* record: no record with such an id is stored or listed, a get on one answers
\* 404, an update of one answers 404 after its findOne, and a delete of one
\* answers 404 at once. A 500 of the store is no answer about the id.
AnsweredNotFound(G, H) ==
  /\ \A d \in Docs' : d.id \notin H
  /\ AnswersAtOnce /\ resp'.kind = "list" /\ resp'.status = 200 =>
       \A d \in resp'.shops : d.id \notin G
  /\ AnswersAtOnce /\ resp'.kind \in {"get", "delete"} /\ resp'.id \in G
       /\ resp'.status # 500 => resp'.status = 404
  /\ \A p \in Procs :
       /\ pc[p] = "idle" /\ pc'[p] = "unlink" => req'[p].id \notin G
       /\ pc[p] = "findOne" /\ pc'[p] # "findOne" /\ req[p].id \in G =>
            /\ Answers(p)
            /\ resp'.status # 500 => resp'.status = 404

====
